---- MODULE Spec2Model ----
(***************************************************************************)
(* Model of altera_fmt_lib.py: the 12-byte AlteraTag classifier and the    *)
(* JICReader container parser (page index, page reads, firmware            *)
(* extraction).  Bytes are integers 0..255, a byte string is a sequence    *)
(* of bytes, file positions are 0-based as in Python.                      *)
(***************************************************************************)
EXTENDS Integers, Sequences, FiniteSets, TLC

VARIABLES
    built,      \* how the byte source was put together (root, records, excess, tail)
    src,        \* the bytes of the source f
    strict,     \* self.strict
    pc,         \* "new" (before the constructor), "opened", "failed"
    cursor,     \* f.tell()
    headers,    \* self.headers, a sequence of JICPage
    typedict,   \* self.typedict, type -> sequence of header ids (0-based)
    lastOp,     \* the call made last
    argHdr,     \* its header argument (read_page)
    argInt,     \* its integer argument (read_page_by_id, read_pages_by_type)
    exc,        \* the exception class it raised, or "none"
    kind,       \* which raise statement it was, or "none"
    delta,      \* the byte count of the end-of-file message
    retBytes,   \* bytes returned (read_page, read_page_by_id, extract_firmware)
    retList     \* list returned (read_pages_by_type: pages; list_types: codes)

vars == <<built, src, strict, pc, cursor, headers, typedict, lastOp, argHdr,
          argInt, exc, kind, delta, retBytes, retList>>

\* ------------------------------------------------------------------ bounds
MaxPages == 2
MaxExcess == 2

\* ------------------------------------------------------- program constants
TagLen == 12
RecHdrLen == 6
FW_PAGE_ID == 28

\* ----------------------------------------------------------- byte strings
Min(a, b) == IF a < b THEN a ELSE b

\* struct "<H": 16-bit little-endian
PackU16(n) == <<n % 256, (n \div 256) % 256>>

\* struct "<I": 32-bit little-endian
PackU32(n) ==
    <<n % 256, (n \div 256) % 256, (n \div 65536) % 256, (n \div 16777216) % 256>>

UnpackU16(b) == b[1] + 256 * b[2]

UnpackU32(b) == b[1] + 256 * b[2] + 65536 * b[3] + 16777216 * b[4]

\* struct "4s": the string cut to 4 bytes and NUL-padded
Pack4s(sig) == [i \in 1..4 |-> IF i <= Len(sig) THEN sig[i] ELSE 0]

\* AlteraTag.S.pack(sig, a, b), S = Struct("<4sII")
S_pack(sig, a, b) == Pack4s(sig) \o PackU32(a) \o PackU32(b)

\* jic_rec_hdr_st.pack(t, size), jic_rec_hdr_st = Struct('<HI')
jic_rec_hdr_pack(t, size) == PackU16(t) \o PackU32(size)

\* jic_rec_hdr_st.unpack(data) for 6 bytes of data
jic_rec_hdr_unpack(data) ==
    [t |-> UnpackU16(SubSeq(data, 1, 2)), size |-> UnpackU32(SubSeq(data, 3, 6))]

\* f.read(n) with the cursor at cur: the bytes read (none at or past the end)
FRead(s, cur, n) == SubSeq(s, cur + 1, Min(cur + n, Len(s)))

\* bytes.startswith
StartsWith(buf, ext) == Len(buf) >= Len(ext) /\ SubSeq(buf, 1, Len(ext)) = ext

\* ------------------------------------------------------------- AlteraTag
JIC == <<74, 73, 67>>
SOF == <<83, 79, 70>>
POF == <<80, 79, 70>>

JIC_HEADER_TAG == S_pack(JIC, 0, 8)
SOF_HEADER_TAG == S_pack(SOF, 0, 11)
POF_HEADER_TAG == S_pack(POF, 65536, 7)
RAW_FIRMWARE_TAG == S_pack(<<>>, 0, 67584)

\* AlteraTag.__init__: accepts exactly 12 bytes
TagOk(buf) == Len(buf) = TagLen

\* AlteraTag.classify: lookup of the whole buffer in the classificator
classify(buf) ==
    CASE buf = JIC_HEADER_TAG -> "JIC_HEADER"
      [] buf = SOF_HEADER_TAG -> "SOF_HEADER"
      [] buf = POF_HEADER_TAG -> "POF_HEADER"
      [] buf = RAW_FIRMWARE_TAG -> "RAW_FIRMWARE"
      [] OTHER -> "None"

\* AlteraTag.check_ext_unstrict
check_ext_unstrict(buf, ext) == StartsWith(buf, ext)

\* ------------------------------------------------------ JICReader._parse
\* check_rt of _parse, for either mode
check_rt_lenient_always(st, root_tag) == check_ext_unstrict(root_tag, JIC)
check_rt(st, root_tag) ==
    IF st THEN classify(root_tag) = "JIC_HEADER"
    ELSE check_ext_unstrict(root_tag, JIC)

\* "if not data: break"
IsCleanEof_short_too(data) == Len(data) < RecHdrLen
IsCleanEof(data) == data = <<>>

\* the struct_error of unpack: data is not 6 bytes long
UnpackFails(data) == Len(data) /= RecHdrLen

\* "if our_pos != eof_pos"
EofMismatch_unchecked(our_pos, eof_pos) == FALSE
EofMismatch(our_pos, eof_pos) == our_pos /= eof_pos

\* "our_pos - eof_pos" of the message
EofDelta_swapped(our_pos, eof_pos) == eof_pos - our_pos
EofDelta(our_pos, eof_pos) == our_pos - eof_pos

NoHdr == [type |-> 0, pos |-> 0, size |-> 0]

\* read_rec_headers, from cursor cur with the pages acc already yielded:
\* the generator run to its end under list()
RECURSIVE read_rec_headers(_, _, _)
read_rec_headers(s, cur, acc) ==
    LET data == FRead(s, cur, RecHdrLen)
        after == cur + Len(data)
    IN  IF IsCleanEof(data)
        THEN IF EofMismatch(after, Len(s))
             THEN [exc |-> "JICReaderException", kind |-> "TrailingOrMissingBytes",
                   delta |-> EofDelta(after, Len(s)), headers |-> acc,
                   cursor |-> Len(s)]
             ELSE [exc |-> "none", kind |-> "none", delta |-> 0, headers |-> acc,
                   cursor |-> Len(s)]
        ELSE IF UnpackFails(data)
        THEN [exc |-> "JICReaderException", kind |-> "TruncatedHeader",
              delta |-> 0, headers |-> acc, cursor |-> after]
        ELSE LET h == jic_rec_hdr_unpack(data)
                 pos == after
                 page == [type |-> h.t, pos |-> pos, size |-> h.size]
             IN  read_rec_headers(s, pos + h.size, Append(acc, page))

\* "D[h.type].append(i)"
BucketAdd_front(bucket, i) == <<i>> \o bucket
BucketAdd(bucket, i) == Append(bucket, i)

\* build_typedict: hs[k..] folded into D; header ids are 0-based
RECURSIVE build_typedict(_, _, _)
build_typedict(hs, k, D) ==
    IF k > Len(hs) THEN D
    ELSE LET t == hs[k].type
             i == k - 1
         IN  build_typedict(hs, k + 1,
                 IF t \notin DOMAIN D
                 THEN [x \in DOMAIN D \cup {t} |-> IF x = t THEN <<i>> ELSE D[x]]
                 ELSE [D EXCEPT ![t] = BucketAdd(D[t], i)])

EmptyDict == [x \in {} |-> <<>>]

\* _parse as a whole
parse(s, st) ==
    LET d == FRead(s, 0, TagLen)
    IN  IF ~TagOk(d)
        THEN [exc |-> "AlteraTagException", kind |-> "MalformedTag", delta |-> 0,
              headers |-> <<>>, cursor |-> Len(d)]
        ELSE IF ~check_rt(st, d)
        THEN [exc |-> "JICReaderException", kind |-> "BadRootTag", delta |-> 0,
              headers |-> <<>>, cursor |-> Len(d)]
        ELSE read_rec_headers(s, Len(d), <<>>)

\* ------------------------------------------------------- JICReader reads
\* "self.f.seek(hdr.pos)": where the read of read_page starts
ReadStart_no_seek(cur, hdr) == cur
ReadStart(cur, hdr) == hdr.pos

\* read_page
read_page(s, cur, hdr) ==
    LET start == ReadStart(cur, hdr)
        data == FRead(s, start, hdr.size)
    IN  IF Len(data) < hdr.size
        THEN [exc |-> "JICReaderException", kind |-> "ShortRead", data |-> <<>>,
              cursor |-> start + Len(data)]
        ELSE [exc |-> "none", kind |-> "none", data |-> data,
              cursor |-> start + Len(data)]

\* self.headers[i]: Python list indexing, ids 0-based, a negative id counts
\* from the end of the list
IndexInRange(hs, i) == -Len(hs) <= i /\ i < Len(hs)

ListItem(hs, i) == IF i >= 0 THEN hs[i + 1] ELSE hs[Len(hs) + i + 1]

\* read_page_by_id
read_page_by_id(s, cur, hs, i) ==
    IF ~IndexInRange(hs, i)
    THEN [exc |-> "IndexError", kind |-> "IndexOutOfRange", data |-> <<>>,
          cursor |-> cur]
    ELSE read_page(s, cur, ListItem(hs, i))

\* "[self.read_page_by_id(i) for i in ii]", from ii[k] on
RECURSIVE read_ids(_, _, _, _, _, _)
read_ids(s, cur, hs, ii, k, acc) ==
    IF k > Len(ii)
    THEN [exc |-> "none", kind |-> "none", pages |-> acc, cursor |-> cur]
    ELSE LET r == read_page_by_id(s, cur, hs, ii[k])
         IN  IF r.exc /= "none"
             THEN [exc |-> r.exc, kind |-> r.kind, pages |-> <<>>, cursor |-> r.cursor]
             ELSE read_ids(s, r.cursor, hs, ii, k + 1, Append(acc, r.data))

\* read_pages_by_type
read_pages_by_type(s, cur, hs, TD, t) ==
    IF t \notin DOMAIN TD
    THEN [exc |-> "none", kind |-> "none", pages |-> <<>>, cursor |-> cur]
    ELSE read_ids(s, cur, hs, TD[t], 1, <<>>)

\* list.sort() of a list of distinct integers
RECURSIVE SortedSeq(_)
SortedSeq(S) ==
    IF S = {} THEN <<>>
    ELSE LET m == CHOOSE x \in S : \A y \in S : x <= y
         IN  <<m>> \o SortedSeq(S \ {m})

\* list_types
list_types(TD) == SortedSeq(DOMAIN TD)

\* "len(pp) == 1 if self.strict else len(pp) != 0"
FwCountOk_any_mode_nonzero(st, n) == n /= 0
FwCountOk(st, n) == IF st THEN n = 1 ELSE n /= 0

\* "data[12:]"
RECURSIVE RStripFF(_)
RStripFF(b) ==
    IF b /= <<>> /\ b[Len(b)] = 255 THEN RStripFF(SubSeq(b, 1, Len(b) - 1)) ELSE b

FirmwareImage_trimmed(data) == RStripFF(SubSeq(data, TagLen + 1, Len(data)))
FirmwareImage(data) == SubSeq(data, TagLen + 1, Len(data))

\* extract_firmware
extract_firmware(s, cur, hs, TD, st) ==
    LET r == read_pages_by_type(s, cur, hs, TD, FW_PAGE_ID)
        pp == r.pages
    IN  IF r.exc /= "none"
        THEN [exc |-> r.exc, kind |-> r.kind, data |-> <<>>, cursor |-> r.cursor]
        ELSE IF ~FwCountOk(st, Len(pp))
        THEN [exc |-> "JICReaderException", kind |-> "UnexpectedFirmwarePageCount",
              data |-> <<>>, cursor |-> r.cursor]
        ELSE LET data == pp[1]
                 tag == SubSeq(data, 1, Min(TagLen, Len(data)))
             IN  IF ~TagOk(tag)
                 THEN [exc |-> "AlteraTagException", kind |-> "MalformedTag",
                       data |-> <<>>, cursor |-> r.cursor]
                 ELSE IF st /\ classify(tag) /= "RAW_FIRMWARE"
                 THEN [exc |-> "JICReaderException", kind |-> "TagMismatch",
                       data |-> <<>>, cursor |-> r.cursor]
                 ELSE [exc |-> "none", kind |-> "none",
                       data |-> FirmwareImage(data), cursor |-> r.cursor]

\* ------------------------------------------------------------ byte sources
RECURSIVE Concat(_)
Concat(ss) == IF ss = <<>> THEN <<>> ELSE Head(ss) \o Concat(Tail(ss))

RECURSIVE SeqsUpTo(_, _)
SeqsUpTo(S, n) ==
    IF n = 0 THEN {<<>>}
    ELSE LET shorter == SeqsUpTo(S, n - 1)
         IN  shorter \cup {Append(q, x) : q \in {r \in shorter : Len(r) = n - 1}, x \in S}

Roots == {JIC_HEADER_TAG, S_pack(JIC, 0, 9), S_pack(<<74, 73, 67, 88>>, 0, 8),
          SOF_HEADER_TAG}

ShortSources == {<<>>, JIC, SubSeq(JIC_HEADER_TAG, 1, 11)}

Payloads28 == {<<255>>, RAW_FIRMWARE_TAG, RAW_FIRMWARE_TAG \o <<7, 255>>,
               SOF_HEADER_TAG \o <<7>>}

RecChoices == [type : {1}, payload : {<<>>, <<255>>}]
              \cup [type : {FW_PAGE_ID}, payload : Payloads28]

Tails == {<<>>, <<1>>, <<1, 0, 0>>, <<28, 0, 1, 0, 0>>}

\* a record as it lies in the file; the last record may declare `excess`
\* bytes more than follow its header
RecBytes(r, excess) == jic_rec_hdr_pack(r.type, Len(r.payload) + excess) \o r.payload

Encode(b) ==
    b.root
    \o Concat([k \in 1..Len(b.recs) |->
                 RecBytes(b.recs[k], IF k = Len(b.recs) THEN b.excess ELSE 0)])
    \o b.tail

Builds ==
    { [root |-> r, recs |-> q, excess |-> e, tail |-> t] :
        r \in Roots, q \in SeqsUpTo(RecChoices, MaxPages), e \in 0..MaxExcess,
        t \in Tails }

Inputs ==
    { b \in Builds : b.recs = <<>> => b.excess = 0 }
    \cup { [root |-> s, recs |-> <<>>, excess |-> 0, tail |-> <<>>] : s \in ShortSources }

Init ==
    /\ built \in Inputs
    /\ src = Encode(built)
    /\ strict \in BOOLEAN
    /\ pc = "new"
    /\ cursor = 0
    /\ headers = <<>>
    /\ typedict = EmptyDict
    /\ lastOp = "none"
    /\ argHdr = NoHdr
    /\ argInt = 0
    /\ exc = "none"
    /\ kind = "none"
    /\ delta = 0
    /\ retBytes = <<>>
    /\ retList = <<>>

\* JICReader.__init__: on an exception no object exists, so no headers and
\* no typedict
Open ==
    /\ pc = "new"
    /\ LET r == parse(src, strict)
       IN  /\ cursor' = r.cursor
           /\ exc' = r.exc
           /\ kind' = r.kind
           /\ delta' = r.delta
           /\ IF r.exc = "none"
              THEN /\ pc' = "opened"
                   /\ headers' = r.headers
                   /\ typedict' = build_typedict(r.headers, 1, EmptyDict)
              ELSE /\ pc' = "failed"
                   /\ UNCHANGED <<headers, typedict>>
    /\ lastOp' = "open"
    /\ UNCHANGED <<built, src, strict, argHdr, argInt, retBytes, retList>>

\* the arguments the calls are tried with
HdrArgs ==
    {headers[k] : k \in 1..Len(headers)}
    \cup {[type |-> 0, pos |-> Len(src), size |-> 1],
          [type |-> 0, pos |-> 0, size |-> Len(src) + 1]}

IdArgs == (0 - Len(headers) - 1)..Len(headers)

TypeArgs == {1, FW_PAGE_ID, 30}

ReadPage ==
    /\ pc = "opened"
    /\ \E h \in HdrArgs :
         LET r == read_page(src, cursor, h)
         IN  /\ argHdr' = h
             /\ cursor' = r.cursor
             /\ exc' = r.exc
             /\ kind' = r.kind
             /\ retBytes' = r.data
    /\ lastOp' = "read_page"
    /\ argInt' = 0
    /\ retList' = <<>>
    /\ UNCHANGED <<built, src, strict, pc, headers, typedict, delta>>

ReadPageById ==
    /\ pc = "opened"
    /\ \E i \in IdArgs :
         LET r == read_page_by_id(src, cursor, headers, i)
         IN  /\ argInt' = i
             /\ cursor' = r.cursor
             /\ exc' = r.exc
             /\ kind' = r.kind
             /\ retBytes' = r.data
    /\ lastOp' = "read_page_by_id"
    /\ argHdr' = NoHdr
    /\ retList' = <<>>
    /\ UNCHANGED <<built, src, strict, pc, headers, typedict, delta>>

ReadPagesByType ==
    /\ pc = "opened"
    /\ \E t \in TypeArgs :
         LET r == read_pages_by_type(src, cursor, headers, typedict, t)
         IN  /\ argInt' = t
             /\ cursor' = r.cursor
             /\ exc' = r.exc
             /\ kind' = r.kind
             /\ retList' = r.pages
    /\ lastOp' = "read_pages_by_type"
    /\ argHdr' = NoHdr
    /\ retBytes' = <<>>
    /\ UNCHANGED <<built, src, strict, pc, headers, typedict, delta>>

ListTypes ==
    /\ pc = "opened"
    /\ retList' = list_types(typedict)
    /\ lastOp' = "list_types"
    /\ exc' = "none"
    /\ kind' = "none"
    /\ argHdr' = NoHdr
    /\ argInt' = 0
    /\ retBytes' = <<>>
    /\ UNCHANGED <<built, src, strict, pc, cursor, headers, typedict, delta>>

ExtractFirmware ==
    /\ pc = "opened"
    /\ LET r == extract_firmware(src, cursor, headers, typedict, strict)
       IN  /\ cursor' = r.cursor
           /\ exc' = r.exc
           /\ kind' = r.kind
           /\ retBytes' = r.data
    /\ lastOp' = "extract_firmware"
    /\ argHdr' = NoHdr
    /\ argInt' = 0
    /\ retList' = <<>>
    /\ UNCHANGED <<built, src, strict, pc, headers, typedict, delta>>

Next ==
    \/ Open
    \/ ReadPage
    \/ ReadPageById
    \/ ReadPagesByType
    \/ ListTypes
    \/ ExtractFirmware

Spec == Init /\ [][Next]_vars

\* ---------------------------------------------------------------- claims
\* the bytes of the source in [h.pos, h.pos + h.size)
PageBytes(h) == SubSeq(src, h.pos + 1, h.pos + h.size)

\* the sum of the sizes of hs[1..k]
RECURSIVE SumSizes(_, _)
SumSizes(hs, k) == IF k = 0 THEN 0 ELSE SumSizes(hs, k - 1) + hs[k].size

\* the 1-based places of the indexed pages of type t
PagesOfType(t) == {k \in 1..Len(headers) : headers[k].type = t}

\* the constructor has returned or raised, and nothing was called since
JustOpened == lastOp = "open"

\* the source is a well-formed root tag followed by `built.recs`, each record
\* complete but for the excess of the last, followed by `built.tail`
RootIsJicHeader == built.root = <<74, 73, 67, 0, 0, 0, 0, 0, 8, 0, 0, 0>>

NoIndex == headers = <<>> /\ typedict = EmptyDict

\* C1: whenever open succeeds, the page sizes plus 6 bytes per page plus the
\* 12 root-tag bytes add up to the length of the source; page i starts at
\* 12 + 6*(i+1) + the sizes of the pages before it, and the last page ends
\* at the end of the source.
C1_SizeAccounting ==
    pc = "opened" =>
        /\ SumSizes(headers, Len(headers)) + 6 * Len(headers) + 12 = Len(src)
        /\ \A i \in 0..(Len(headers) - 1) :
               headers[i + 1].pos = 12 + 6 * (i + 1) + SumSizes(headers, i)
        /\ headers /= <<>> =>
               headers[Len(headers)].pos + headers[Len(headers)].size = Len(src)

C1_Witness ==
    /\ pc = "opened"
    /\ Len(headers) = 2
    /\ headers[1].size > 0
    /\ headers[2].size > 0

\* C2: a container with a single type-28 page whose payload is the
\* RAW_FIRMWARE tag followed by N bytes gives exactly those N bytes from
\* extract_firmware, in strict and in lenient mode.
FwBodies == {<<>>, <<7, 255>>}

SingleFwPage(body) ==
    /\ built.excess = 0
    /\ built.tail = <<>>
    /\ \E k \in 1..Len(built.recs) :
         /\ built.recs[k].type = 28
         /\ built.recs[k].payload = <<0, 0, 0, 0, 0, 0, 0, 0, 0, 8, 1, 0>> \o body
         /\ \A j \in 1..Len(built.recs) : j /= k => built.recs[j].type /= 28

C2_RoundTrip ==
    \A body \in FwBodies :
        (lastOp = "extract_firmware" /\ SingleFwPage(body)) =>
            (exc = "none" /\ retBytes = body)

C2_Witness ==
    /\ lastOp = "extract_firmware"
    /\ strict
    /\ SingleFwPage(<<7, 255>>)
    /\ retBytes = <<7, 255>>

\* C3: in strict mode open passes the root check only if the first 12 bytes
\* are exactly the JIC_HEADER encoding, so "JIC" with field_b /= 8 is rejected
\* with BadRootTag; in lenient mode open passes the root check exactly when
\* the first 3 bytes are "JIC"; what strict mode accepts, lenient mode accepts.
PassedRootCheck == kind \notin {"BadRootTag", "MalformedTag"}

RootAccepted(st) == parse(src, st).kind \notin {"BadRootTag", "MalformedTag"}

C3_RootTagValidation ==
    /\ (JustOpened /\ strict /\ PassedRootCheck) =>
           SubSeq(src, 1, 12) = <<74, 73, 67, 0, 0, 0, 0, 0, 8, 0, 0, 0>>
    /\ (JustOpened /\ strict /\ Len(src) >= 12 /\ SubSeq(src, 1, 4) = <<74, 73, 67, 0>>
          /\ SubSeq(src, 9, 12) /= <<8, 0, 0, 0>>) =>
           (pc = "failed" /\ exc = "JICReaderException" /\ kind = "BadRootTag")
    /\ (JustOpened /\ ~strict /\ Len(src) >= 12) =>
           (PassedRootCheck <=> SubSeq(src, 1, 3) = <<74, 73, 67>>)
    /\ RootAccepted(TRUE) => RootAccepted(FALSE)

C3_Witness ==
    /\ JustOpened
    /\ ~strict
    /\ pc = "opened"
    /\ SubSeq(src, 1, 12) = <<74, 73, 67, 0, 0, 0, 0, 0, 9, 0, 0, 0>>

\* C4 (as amended): extract_firmware in strict mode fails with
\* UnexpectedFirmwarePageCount exactly when the number of type-28 pages is
\* not one; in lenient mode it fails with that error exactly when there is
\* none, and when several exist and the first one's payload has at least 12
\* bytes it succeeds with the first one's payload minus its leading 12 bytes.
FirstFw == headers[CHOOSE k \in PagesOfType(28) : \A j \in PagesOfType(28) : k <= j]

FwCountPolicy ==
    lastOp = "extract_firmware" =>
        LET n == Cardinality(PagesOfType(28))
        IN  IF strict
            THEN (kind = "UnexpectedFirmwarePageCount") <=> (n /= 1)
            ELSE (kind = "UnexpectedFirmwarePageCount") <=> (n = 0)

C5_ScanTermination ==
    /\ (JustOpened /\ RootIsJicHeader /\ built.recs = <<>> /\ built.tail = <<>>) =>
           (pc = "opened" /\ exc = "none" /\ headers = <<>>)
    /\ (JustOpened /\ RootIsJicHeader /\ built.excess = 0
          /\ Len(built.tail) \in 1..5) =>
           /\ pc = "failed"
           /\ exc = "JICReaderException"
           /\ kind = "TruncatedHeader"
           /\ NoIndex

C5_Witness ==
    /\ JustOpened
    /\ kind = "TruncatedHeader"
    /\ Len(built.recs) >= 1
    /\ Len(built.tail) = 3

\* C6: when the record-header loop ends with the cursor off the end of the
\* source, open fails with TrailingOrMissingBytes and delta = cursor minus
\* source length; a last record declaring k > 0 bytes more than remain gives
\* delta = k; the failed open leaves no page index.
C6_EndOfSourceCheck ==
    /\ (JustOpened /\ RootIsJicHeader /\ built.excess >= Len(built.tail)) =>
           IF built.excess = Len(built.tail)
           THEN pc = "opened"
           ELSE /\ pc = "failed"
                /\ exc = "JICReaderException"
                /\ kind = "TrailingOrMissingBytes"
                /\ delta = built.excess - Len(built.tail)
                /\ NoIndex
    /\ kind = "TrailingOrMissingBytes" => (delta /= 0 /\ pc = "failed")
    /\ pc = "failed" => NoIndex

C6_Witness ==
    /\ JustOpened
    /\ kind = "TrailingOrMissingBytes"
    /\ built.tail = <<>>
    /\ built.excess = 2
    /\ delta = 2

\* C7: read_pages_by_type(t) returns the payloads of exactly the indexed
\* pages of type t, in strictly increasing byte_offset order; its length is
\* the number of indexed pages of type t; for an absent type it returns the
\* empty list and raises nothing.
C7_ReadPagesByType ==
    lastOp = "read_pages_by_type" =>
        LET I == PagesOfType(argInt)
        IN  /\ exc = "none"
            /\ Len(retList) = Cardinality(I)
            /\ I = {} => retList = <<>>
            /\ I /= {} =>
                 \E f \in [1..Len(retList) -> I] :
                     /\ \A a, b \in 1..Len(retList) :
                            a < b => headers[f[a]].pos < headers[f[b]].pos
                     /\ \A a \in 1..Len(retList) : retList[a] = PageBytes(headers[f[a]])

C7_Witness ==
    /\ lastOp = "read_pages_by_type"
    /\ argInt = 28
    /\ Len(retList) = 2
    /\ retList[1] /= retList[2]

\* C8: read_page_by_id(i) returns read_page(headers[i]) for 0 <= i < page
\* count and fails for every other i, the negative ones included.
C8_BoundsChecked ==
    lastOp = "read_page_by_id" =>
        IF 0 <= argInt /\ argInt < Len(headers)
        THEN exc = "none" /\ retBytes = PageBytes(headers[argInt + 1])
        ELSE exc /= "none"

\* C9: every failure of the constructor and of extract_firmware is reported
\* as a JICReaderException.
C9_OnlyJICReaderException ==
    lastOp \in {"open", "extract_firmware"} => exc \in {"none", "JICReaderException"}

\* C10: once opened, no call changes headers or typedict, and every
\* read_page of an indexed header returns the source bytes in
\* [pos, pos + size) without ShortRead, wherever the cursor was left.
IsIndexed(h) == \E k \in 1..Len(headers) : headers[k] = h

C10_ReadsAreStable ==
    [][pc = "opened" =>
          /\ headers' = headers
          /\ typedict' = typedict
          /\ (lastOp' = "read_page" /\ IsIndexed(argHdr')) =>
                 /\ exc' = "none"
                 /\ retBytes' = SubSeq(src, argHdr'.pos + 1, argHdr'.pos + argHdr'.size)]_vars

C10_Witness ==
    /\ lastOp = "read_page"
    /\ Len(headers) = 2
    /\ argHdr = headers[1]
    /\ cursor < Len(src)
    /\ retBytes /= <<>>
====
